---- MODULE Spec2Model ----
(***************************************************************************)
(* Model of src/pcr_watch.py: the WorkWx message queue (send_message), the *)
(* captcha callback PcrWatcher._verify_captcha and the loop                *)
(* PcrWatcher.watch.                                                       *)
(*                                                                         *)
(* Texts are records [kind, args]: kind names the f-string of the source,  *)
(* args are the values it interpolates. The datetime.now() stamp that      *)
(* send_message puts before the text is left out of the formatted message; *)
(* the fixed marker it adds is kept.                                       *)
(***************************************************************************)
EXTENDS Integers, Sequences, FiniteSets, TLC

\* ---------------------------------------------------------------- bounds
\* longest pending queue the stand-alone WorkWx specification builds
MaxQueue == 3
\* number of distinct texts the stand-alone WorkWx specification sends
MaxText == 3
\* the seconds up to which the sleeps of one _verify_captcha call are summed
MaxWaited == 50
\* number of watched users (the length of watch_ids)
NumUsers == 2
\* failed queries in a row are counted up to this number
MaxRow == 9

VARIABLES
    queue,      \* WorkWx.queue: the formatted messages not yet sent
    posted,     \* the payloads handed to client.post by the last step
    calls,      \* the send_message calls of the last step, in order
    slept       \* the seconds of asyncio.sleep of the last step

VARIABLES
    vpc,            \* _verify_captcha: where the callback stands
    verify_count,   \* line 123
    query_count,    \* line 140
    outcome,        \* how _verify_captcha ended, and the value it returned
    waited,         \* seconds slept by this call, counted up to MaxWaited
    scenario,       \* polls of VerifyScenario answered so far, -1 once off it
    polled          \* the status response read by the last step, if it read one

VARIABLES
    pc,                         \* watch: where the loop stands
    watch_event,                \* line 108: set once the stop signal came
    shouldLogin,                \* pcr_client.shouldLogin, read at line 199
    pcr_cache,                  \* line 104: watch_id -> (jjc rank, pjjc rank)
    user_query_error_count,     \* line 233
    user_notify_error_count,    \* line 235
    user_rank_has_changed,      \* line 243
    pos,                        \* the place of the for loop of line 246 in pcr_cache
    change_message,             \* line 272: the text built for the user at pos
    queried,                    \* the query made by the last step and how it ended
    streak,                     \* per user: failed queries in a row of that user
    failed_in_row               \* queries in a row, of any user, that failed
                                \* without the text of line 311, up to MaxRow

wxvars == <<queue, posted, calls, slept>>

wvars == <<pc, watch_event, shouldLogin, pcr_cache, user_query_error_count,
           user_notify_error_count, user_rank_has_changed, pos, change_message,
           queried, streak, failed_in_row>>

vfvars == <<vpc, verify_count, query_count, outcome, waited, scenario, polled>>

vars == <<queue, posted, calls, slept,
          vpc, verify_count, query_count, outcome, waited, scenario, polled,
          pc, watch_event, shouldLogin, pcr_cache, user_query_error_count,
          user_notify_error_count, user_rank_has_changed, pos, change_message,
          queried, streak, failed_in_row>>

\* ------------------------------------------------------------ WorkWx
Msg(kind, args) == [kind |-> kind, args |-> args]

\* line 59: message = f"{datetime.now()}\n【PCR】{message}"
Format(message) == [tag |-> "PCR", body |-> message]

\* the "\n\n" that line 78 puts between two messages
Separator == [tag |-> "\n\n", body |-> Msg("", <<>>)]

RECURSIVE Join(_)
\* line 78: "\n\n".join(messages)
Join(messages) ==
    IF messages = <<>> THEN <<>>
    ELSE IF Len(messages) = 1 THEN <<Head(messages)>>
    ELSE <<Head(messages), Separator>> \o Join(Tail(messages))

RECURSIVE DrainLifo(_, _)
DrainLifo(q, messages) ==
    IF q = <<>> THEN messages
    ELSE DrainLifo(SubSeq(q, 1, Len(q) - 1), Append(messages, q[Len(q)]))

RECURSIVE Drain(_, _)
\* lines 67-69: while not queue.empty(): messages.append(await queue.get())
Drain(q, messages) ==
    IF q = <<>> THEN messages
    ELSE Drain(Tail(q), Append(messages, Head(q)))

\* The state of the WorkWx object threaded through the calls of one step.
WxStart == [queue |-> queue, posted |-> <<>>, calls |-> <<>>, raised |-> FALSE]

SendMessagePostsAlways(wx, message, delay, ok) ==
    LET call == [message |-> message, delay |-> delay, raised |-> ~ok]
    IN  IF wx.raised THEN wx ELSE
        [wx EXCEPT !.queue = <<>>,
                   !.posted = Append(@, Join(Append(Drain(wx.queue, <<>>),
                                                    Format(message)))),
                   !.calls = Append(@, call),
                   !.raised = ~ok]

\* lines 54-80: WorkWx.send_message(message, delay); ok says whether
\* client.post returns (TRUE) or raises (FALSE). A call made after an earlier
\* call of the step raised does not happen.
SendMessage(wx, message, delay, ok) ==
    IF wx.raised THEN wx
    ELSE LET call == [message |-> message, delay |-> delay,
                      raised |-> (~delay /\ ~ok)]
         IN  IF delay
             THEN [wx EXCEPT !.queue = Append(@, Format(message)),
                             !.calls = Append(@, call)]
             ELSE [wx EXCEPT !.queue = <<>>,
                             !.posted = Append(@, Join(Append(Drain(wx.queue, <<>>),
                                                              Format(message)))),
                             !.calls = Append(@, call),
                             !.raised = ~ok]

\* what a step leaves in the WorkWx variables
WxSet(wx) ==
    /\ queue' = wx.queue
    /\ posted' = wx.posted
    /\ calls' = wx.calls

InitWxVars ==
    /\ queue = <<>>
    /\ posted = <<>>
    /\ calls = <<>>
    /\ slept = 0

\* --------------------------------------------------- PcrWatcher.watch
\* lines 240, 317: the threshold of both error counts
ErrorLimit == 3
\* lines 228, 333, 340: asyncio.sleep(3)
LoopWait == 3

\* line 367: the watched ids, in the order of the file
WatchIds == [i \in 1..NumUsers |-> i]
Users == {WatchIds[i] : i \in 1..NumUsers}
\* the ranks a profile query returns (lines 260-261)
Ranks == {95, 100}

\* the exceptions a login or a query raises: 1 has the text that line 311
\* looks for, 2 has not
Errors == {1, 2}

IsTitleErrorNever(e) == FALSE

\* line 311: "回到标题界面" in str(e)
IsTitleError(e) == e = 1

NoMessage == Msg("", <<>>)
\* a call of query (lines 206-214) and what it gave: the ranks of the
\* user_info it returned, or the exception it raised
QueryOk(user_id, ranks) == [user |-> user_id, ok |-> TRUE, value |-> ranks]
QueryRaised(user_id, e) == [user |-> user_id, ok |-> FALSE, value |-> <<e>>]
NoQuery == [user |-> 0, ok |-> FALSE, value |-> <<>>]

ChangeJjcCrossed(user_ranks, query_ranks) == user_ranks[1] # query_ranks[2]

\* line 263: change_jjc = user_jjc_rank != query_jjc_rank
ChangeJjc(user_ranks, query_ranks) == user_ranks[1] # query_ranks[1]

\* line 264: change_pjjc = user_pjjc_rank != query_pjjc_rank
ChangePjjc(user_ranks, query_ranks) == user_ranks[2] # query_ranks[2]

WhileConditionLax == ~watch_event /\ user_notify_error_count <= ErrorLimit

\* lines 238-241: the condition of the polling loop
WhileCondition == ~watch_event /\ user_notify_error_count < ErrorLimit

BoardPartSigned(board, user_rank, query_rank) ==
    LET change_diff == user_rank - query_rank
        change_symbol == IF change_diff < 0 THEN -1 ELSE 1
    IN  <<board, change_symbol, change_diff, user_rank, query_rank>>

\* lines 275-283 and 286-294: the part of the text for one board, given the
\* board (1 the arena, 2 the grand arena), the stored and the queried rank:
\* the arrow (-1 down, 1 up), the absolute difference and both ranks
BoardPart(board, user_rank, query_rank) ==
    LET change_diff == user_rank - query_rank
        change_symbol == IF change_diff < 0 THEN -1 ELSE 1
        abs_diff == IF change_diff < 0 THEN -change_diff ELSE change_diff
    IN  <<board, change_symbol, abs_diff, user_rank, query_rank>>

\* lines 272-294: change_message
ChangeMessage(query_user_name, user_ranks, query_ranks) ==
    Msg("rank change",
        <<query_user_name>>
        \o (IF ChangeJjc(user_ranks, query_ranks)
            THEN BoardPart(1, user_ranks[1], query_ranks[1]) ELSE <<>>)
        \o (IF ChangePjjc(user_ranks, query_ranks)
            THEN BoardPart(2, user_ranks[2], query_ranks[2]) ELSE <<>>))

InitWatchVars ==
    /\ pc = "top"
    /\ watch_event = FALSE
    /\ shouldLogin = TRUE
    /\ pcr_cache = [u \in Users |-> <<0, 0>>]
    /\ user_query_error_count = 0
    /\ user_notify_error_count = 0
    /\ user_rank_has_changed = FALSE
    /\ pos = 1
    /\ change_message = NoMessage
    /\ queried = NoQuery
    /\ streak = [u \in Users |-> 0]
    /\ failed_in_row = 0

\* where the for loop of line 246 goes after the user at pos
AfterUser ==
    IF pos < NumUsers
    THEN /\ pc' = "for"
         /\ pos' = pos + 1
    ELSE /\ pc' = "summary"
         /\ pos' = pos

\* line 221: the stop signal is set, watch returns
WatchReturns ==
    /\ UNCHANGED vfvars
    /\ pc = "top"
    /\ watch_event
    /\ pc' = "returned"
    /\ WxSet(WxStart)
    /\ slept' = 0
    /\ queried' = NoQuery
    /\ UNCHANGED <<watch_event, shouldLogin, pcr_cache, user_query_error_count,
                   user_notify_error_count, user_rank_has_changed, pos,
                   change_message, streak, failed_in_row>>

\* lines 221-225: the stop signal is not set, login is called
WatchLogin ==
    /\ UNCHANGED vfvars
    /\ pc = "top"
    /\ ~watch_event
    /\ pc' = "login"
    /\ WxSet(WxStart)
    /\ slept' = 0
    /\ queried' = NoQuery
    /\ UNCHANGED <<watch_event, shouldLogin, pcr_cache, user_query_error_count,
                   user_notify_error_count, user_rank_has_changed, pos,
                   change_message, streak, failed_in_row>>

\* lines 199-204, 226-229: one round of the loop of login. pcr_client.login
\* returns (and the client needs no login any more) or raises e; an exception
\* of login, also that of the post of "login ok", is reported at line 227,
\* and an exception of that post leaves watch.
LoginAttempt ==
    /\ UNCHANGED vfvars
    /\ pc = "login"
    /\ shouldLogin
    /\ \E logged \in BOOLEAN, e \in Errors, ok1 \in BOOLEAN, ok2 \in BOOLEAN :
        LET wx1 == SendMessage(WxStart, Msg("logging in", <<>>), TRUE, TRUE)
            wx2 == IF logged
                   THEN SendMessage(wx1, Msg("login ok", <<>>), FALSE, ok1)
                   ELSE wx1
            caught == ~logged \/ wx2.raised
            wx3 == IF caught
                   THEN SendMessage([wx2 EXCEPT !.raised = FALSE],
                                    Msg("login error", <<IF logged THEN 0 ELSE e>>),
                                    FALSE, ok2)
                   ELSE wx2
        IN  /\ logged \/ ok1
            /\ caught \/ ok2
            /\ (logged /\ ~ok1) => e = 1
            /\ WxSet(wx3)
            /\ shouldLogin' = ~logged
            /\ IF ~caught
               THEN /\ pc' = "login"
                    /\ slept' = 0
               ELSE IF wx3.raised
               THEN /\ pc' = "raised"
                    /\ slept' = 0
               ELSE /\ pc' = "top"
                    /\ slept' = LoopWait
    /\ queried' = NoQuery
    /\ UNCHANGED <<watch_event, pcr_cache, user_query_error_count,
                   user_notify_error_count, user_rank_has_changed, pos,
                   change_message, streak, failed_in_row>>

LoginReturnsResetsCache ==
    /\ UNCHANGED vfvars
    /\ pc = "login"
    /\ ~shouldLogin
    /\ user_query_error_count' = 0
    /\ user_notify_error_count' = 0
    /\ pcr_cache' = [u \in Users |-> <<0, 0>>]
    /\ pc' = "while"
    /\ WxSet(WxStart)
    /\ slept' = 0
    /\ queried' = NoQuery
    /\ streak' = [u \in Users |-> 0]
    /\ UNCHANGED <<watch_event, shouldLogin, user_rank_has_changed,
                   pos, change_message, failed_in_row>>

\* lines 199, 231-235: login returns, both counts are set to 0
LoginReturns ==
    /\ UNCHANGED vfvars
    /\ pc = "login"
    /\ ~shouldLogin
    /\ user_query_error_count' = 0
    /\ user_notify_error_count' = 0
    /\ pc' = "while"
    /\ WxSet(WxStart)
    /\ slept' = 0
    /\ queried' = NoQuery
    /\ streak' = [u \in Users |-> 0]
    /\ UNCHANGED <<watch_event, shouldLogin, pcr_cache, user_rank_has_changed,
                   pos, change_message, failed_in_row>>

\* lines 238-246: the while condition holds, a cycle starts
CycleStart ==
    /\ UNCHANGED vfvars
    /\ pc = "while"
    /\ WhileCondition
    /\ user_rank_has_changed' = FALSE
    /\ pos' = 1
    /\ pc' = "for"
    /\ WxSet(WxStart)
    /\ slept' = 0
    /\ queried' = NoQuery
    /\ UNCHANGED <<watch_event, shouldLogin, pcr_cache, user_query_error_count,
                   user_notify_error_count, change_message, streak, failed_in_row>>

\* lines 238-240, 338-340: the while condition fails; the finally sleeps and
\* the outer loop goes on
PollingEnds ==
    /\ UNCHANGED vfvars
    /\ pc = "while"
    /\ ~WhileCondition
    /\ pc' = "top"
    /\ WxSet(WxStart)
    /\ slept' = LoopWait
    /\ queried' = NoQuery
    /\ UNCHANGED <<watch_event, shouldLogin, pcr_cache, user_query_error_count,
                   user_notify_error_count, user_rank_has_changed, pos,
                   change_message, streak, failed_in_row>>

\* lines 252-300: the query of the user at pos returns its ranks
QuerySucceeds ==
    /\ UNCHANGED vfvars
    /\ pc = "for"
    /\ \E query_jjc_rank \in Ranks, query_pjjc_rank \in Ranks :
        LET user_id == WatchIds[pos]
            query_ranks == <<query_jjc_rank, query_pjjc_rank>>
            change_jjc == ChangeJjc(pcr_cache[user_id], query_ranks)
            change_pjjc == ChangePjjc(pcr_cache[user_id], query_ranks)
        IN  /\ user_query_error_count' = 0
            /\ user_notify_error_count' = 0
            /\ streak' = [streak EXCEPT ![user_id] = 0]
            /\ failed_in_row' = 0
            /\ queried' = QueryOk(user_id, query_ranks)
            /\ IF ~change_jjc /\ ~change_pjjc
               THEN /\ AfterUser
                    /\ UNCHANGED <<user_rank_has_changed, change_message, pcr_cache>>
               ELSE /\ user_rank_has_changed' = TRUE
                    /\ change_message' =
                           ChangeMessage(user_id, pcr_cache[user_id], query_ranks)
                    /\ pcr_cache' = [pcr_cache EXCEPT ![user_id] = query_ranks]
                    /\ pc' = "enqueue"
                    /\ pos' = pos
    /\ WxSet(WxStart)
    /\ slept' = 0
    /\ UNCHANGED <<watch_event, shouldLogin>>

\* lines 305-307: the text of the change is put in the queue
EnqueueChange ==
    /\ UNCHANGED vfvars
    /\ pc = "enqueue"
    /\ WxSet(SendMessage(WxStart, change_message, TRUE, TRUE))
    /\ change_message' = NoMessage
    /\ AfterUser
    /\ slept' = 0
    /\ queried' = NoQuery
    /\ UNCHANGED <<watch_event, shouldLogin, pcr_cache, user_query_error_count,
                   user_notify_error_count, user_rank_has_changed, streak, failed_in_row>>

\* lines 309-313: the query raises an exception with the text of line 311
QueryInvalidated ==
    /\ UNCHANGED vfvars
    /\ pc = "for"
    /\ \E e \in Errors, relogin \in BOOLEAN :
        /\ IsTitleError(e)
        /\ shouldLogin' = (shouldLogin \/ relogin)
        /\ queried' = QueryRaised(WatchIds[pos], e)
    /\ user_notify_error_count' = ErrorLimit
    /\ pc' = "summary"
    /\ streak' = [streak EXCEPT ![WatchIds[pos]] = 0]
    /\ failed_in_row' = 0
    /\ WxSet(WxStart)
    /\ slept' = 0
    /\ UNCHANGED <<watch_event, pcr_cache, user_query_error_count,
                   user_rank_has_changed, pos, change_message>>

BelowLimitTwo(count) == count < ErrorLimit - 1

\* line 317: self.user_query_error_count < 3
BelowLimit(count) == count < ErrorLimit

\* lines 309-326: the query raises another exception
QueryFails ==
    /\ UNCHANGED vfvars
    /\ pc = "for"
    /\ \E e \in Errors, relogin \in BOOLEAN, ok \in BOOLEAN :
        /\ ~IsTitleError(e)
        /\ shouldLogin' = (shouldLogin \/ relogin)
        /\ queried' = QueryRaised(WatchIds[pos], e)
        /\ IF BelowLimit(user_query_error_count + 1)
           THEN /\ ok
                /\ user_query_error_count' = user_query_error_count + 1
                /\ AfterUser
                /\ WxSet(WxStart)
                /\ slept' = 0
                /\ UNCHANGED user_notify_error_count
           ELSE LET wx1 == SendMessage(WxStart, Msg("query failed", <<e>>), FALSE, ok)
                IN  /\ WxSet(wx1)
                    /\ pos' = pos
                    /\ IF wx1.raised
                       THEN \* lines 335-340
                            /\ user_query_error_count' = user_query_error_count + 1
                            /\ pc' = "top"
                            /\ slept' = LoopWait
                            /\ UNCHANGED user_notify_error_count
                       ELSE /\ user_query_error_count' = 0
                            /\ user_notify_error_count' = user_notify_error_count + 1
                            /\ pc' = "summary"
                            /\ slept' = 0
    /\ streak' = [streak EXCEPT ![WatchIds[pos]] = IF @ + 1 < ErrorLimit THEN @ + 1 ELSE 0]
    /\ failed_in_row' = IF failed_in_row < MaxRow THEN failed_in_row + 1 ELSE MaxRow
    /\ UNCHANGED <<watch_event, pcr_cache, user_rank_has_changed, change_message>>

CycleEndAlways ==
    /\ UNCHANGED vfvars
    /\ pc = "summary"
    /\ \E ok \in BOOLEAN :
        LET wx1 == SendMessage(WxStart, Msg("ranks changed", <<>>), FALSE, ok)
        IN  /\ WxSet(wx1)
            /\ pc' = IF wx1.raised THEN "top" ELSE "while"
    /\ slept' = LoopWait
    /\ queried' = NoQuery
    /\ UNCHANGED <<watch_event, shouldLogin, pcr_cache, user_query_error_count,
                   user_notify_error_count, user_rank_has_changed, pos,
                   change_message, streak, failed_in_row>>

\* lines 329-333: the end of a cycle; an exception of the post is caught at
\* line 335 and the finally sleeps
CycleEnd ==
    /\ UNCHANGED vfvars
    /\ pc = "summary"
    /\ \E ok \in BOOLEAN :
        LET wx1 == IF user_rank_has_changed
                   THEN SendMessage(WxStart, Msg("ranks changed", <<>>), FALSE, ok)
                   ELSE WxStart
        IN  /\ user_rank_has_changed \/ ok
            /\ WxSet(wx1)
            /\ pc' = IF wx1.raised THEN "top" ELSE "while"
    /\ slept' = LoopWait
    /\ queried' = NoQuery
    /\ UNCHANGED <<watch_event, shouldLogin, pcr_cache, user_query_error_count,
                   user_notify_error_count, user_rank_has_changed, pos,
                   change_message, streak, failed_in_row>>

\* lines 109, 347-353: SIGTERM runs watch_stop
Sigterm ==
    /\ UNCHANGED vfvars
    /\ pc \notin {"returned", "raised"}
    /\ ~watch_event
    /\ watch_event' = TRUE
    /\ WxSet(WxStart)
    /\ slept' = 0
    /\ queried' = NoQuery
    /\ UNCHANGED <<pc, shouldLogin, pcr_cache, user_query_error_count,
                   user_notify_error_count, user_rank_has_changed, pos,
                   change_message, streak, failed_in_row>>

\* lines 342-345: the task is cancelled, or interrupted from the keyboard,
\* while it waits; watch_stop is called and the outer loop goes on
Interrupted ==
    /\ UNCHANGED vfvars
    /\ pc \notin {"returned", "raised", "top", "enqueue"}
    /\ watch_event' = TRUE
    /\ pc' = "top"
    /\ WxSet(WxStart)
    /\ slept' = 0
    /\ queried' = NoQuery
    /\ UNCHANGED <<shouldLogin, pcr_cache, user_query_error_count,
                   user_notify_error_count, user_rank_has_changed, pos,
                   change_message, streak, failed_in_row>>


\* ------------------------------------------------- _verify_captcha
\* line 126: while verify_count < 3
MaxVerify == 3
\* line 142: while query_count < 10
MaxQuery == 10
\* line 152: min(query_queue, 3)
QueueCap == 3
\* line 152: ... * 10
QueueUnit == 10
\* line 176: asyncio.sleep(5)
RunningWait == 5

\* The JSON of a status response (lines 147, 150, 165): queue_num is 0 when
\* the key is absent; info is a string (str), or a dict with the keys
\* challenge, gt_user_id and validate, or absent (every field empty).
Info(str, challenge, gt_user_id, validate) ==
    [str |-> str, challenge |-> challenge, gt_user_id |-> gt_user_id,
     validate |-> validate]
NoInfo == Info("", "", "", "")
InfoStr(s) == Info(s, "", "", "")
InfoDict(challenge, gt_user_id, validate) == Info("", challenge, gt_user_id, validate)
Response(queue_num, info) == [queue_num |-> queue_num, info |-> info]
NoResponse == Response(0, Info("none", "", "", ""))

\* the queue positions the solving service reports
QueueNums == {1, 2, 3, 5, 100}
\* the status responses the solving service gives: a queue position or an
\* info, or neither
Responses ==
    {Response(q, NoInfo) : q \in QueueNums}
    \cup {Response(0, InfoStr(s)) : s \in {"fail", "url invalid", "in running", "other"}}
    \cup {Response(0, InfoDict(c, "g", "v")) : c \in {"c", "c0"}}
    \cup {Response(0, NoInfo)}

Min(a, b) == IF a < b THEN a ELSE b

QueryWaittimeUncapped(query_queue) == query_queue * QueueUnit

QueryWaittimeFlat(query_queue) == QueueUnit

\* line 152: query_waittime = min(query_queue, 3) * 10
QueryWaittime(query_queue) == Min(query_queue, QueueCap) * QueueUnit

\* line 180: "validate" in query_info
HasValidate(info) == info.validate # ""

TokenOfSwapped(info) == <<info.gt_user_id, info.challenge, info.validate>>

\* lines 184-188: (query_info["challenge"], query_info["gt_user_id"],
\* query_info["validate"])
TokenOf(info) == <<info.challenge, info.gt_user_id, info.validate>>

\* what _verify_captcha gave back: nothing yet, a returned value (None or a
\* token), or an exception
Running == [how |-> "running", value |-> <<>>]
Returned(value) == [how |-> "returned", value |-> value]
Raised(error) == [how |-> "raised", value |-> <<error>>]
None == <<>>

IsFailInfoFailOnly(query_info) == query_info.str = "fail"

\* line 167: query_info in ["fail", "url invalid"]
IsFailInfo(query_info) == query_info.str \in {"fail", "url invalid"}

\* the status responses of the scenario of section 8 of the specification
VerifyScenario ==
    << Response(2, NoInfo), Response(2, NoInfo),
       Response(0, InfoStr("in running")),
       Response(0, InfoDict("c", "g", "v")) >>

ScenarioStep(resp) ==
    IF /\ scenario >= 0
       /\ scenario < Len(VerifyScenario)
       /\ verify_count = 1
       /\ resp = VerifyScenario[scenario + 1]
    THEN scenario + 1
    ELSE -1

InitVerifyVars ==
    /\ vpc = "while"
    /\ verify_count = 0
    /\ query_count = 0
    /\ outcome = Running
    /\ waited = 0
    /\ scenario = 0
    /\ polled = NoResponse

\* lines 126-140: one more attempt; the GET of verify_url answers with a uuid
Submit ==
    /\ UNCHANGED wvars
    /\ vpc = "while"
    /\ verify_count < MaxVerify
    /\ verify_count' = verify_count + 1
    /\ WxSet(SendMessage(WxStart, Msg("verify attempt", <<verify_count + 1>>), TRUE, TRUE))
    /\ query_count' = 0
    /\ vpc' = "poll"
    /\ slept' = 0
    /\ UNCHANGED <<outcome, waited, scenario>>
    /\ polled' = NoResponse

\* lines 126-136: the GET of verify_url raises, or its answer holds no uuid
SubmitRaises ==
    /\ UNCHANGED wvars
    /\ vpc = "while"
    /\ verify_count < MaxVerify
    /\ verify_count' = verify_count + 1
    /\ WxSet(SendMessage(WxStart, Msg("verify attempt", <<verify_count + 1>>), TRUE, TRUE))
    /\ outcome' = Raised("submit")
    /\ vpc' = "done"
    /\ slept' = 0
    /\ UNCHANGED <<query_count, waited, scenario>>
    /\ polled' = NoResponse

\* lines 142-188: one status poll and the branch its response takes
Poll ==
    /\ UNCHANGED wvars
    /\ vpc = "poll"
    /\ query_count < MaxQuery
    /\ query_count' = query_count + 1
    /\ \E resp \in Responses, ok \in BOOLEAN :
        /\ scenario' = ScenarioStep(resp)
        /\ polled' = resp
        /\ IF resp.queue_num # 0
           THEN \* lines 150-162
                LET query_queue == resp.queue_num
                    query_waittime == QueryWaittime(query_queue)
                    wx1 == SendMessage(WxStart, Msg("verify queued", <<>>), TRUE, TRUE)
                    wx2 == SendMessage(wx1, Msg("verify position",
                                                <<query_queue, query_waittime>>), FALSE, ok)
                IN  /\ WxSet(wx2)
                    /\ IF wx2.raised
                       THEN /\ outcome' = Raised("post")
                            /\ vpc' = "done"
                            /\ slept' = 0
                            /\ UNCHANGED waited
                       ELSE /\ slept' = query_waittime
                            /\ waited' = Min(waited + query_waittime, MaxWaited)
                            /\ UNCHANGED <<outcome, vpc>>
           ELSE IF resp.info = NoInfo
           THEN \* line 165: no info, the loop goes on
                /\ ok
                /\ WxSet(WxStart)
                /\ slept' = 0
                /\ UNCHANGED <<outcome, vpc, waited>>
           ELSE IF IsFailInfo(resp.info)
           THEN \* lines 167-169
                LET wx1 == SendMessage(WxStart, Msg("verify failed", <<>>), FALSE, ok)
                IN  /\ WxSet(wx1)
                    /\ slept' = 0
                    /\ UNCHANGED waited
                    /\ IF wx1.raised
                       THEN /\ outcome' = Raised("post")
                            /\ vpc' = "done"
                       ELSE /\ vpc' = "while"
                            /\ UNCHANGED outcome
           ELSE IF resp.info.str = "in running"
           THEN \* lines 172-177
                /\ ok
                /\ WxSet(SendMessage(WxStart, Msg("verify running", <<>>), TRUE, TRUE))
                /\ slept' = RunningWait
                /\ waited' = Min(waited + RunningWait, MaxWaited)
                /\ UNCHANGED <<outcome, vpc>>
           ELSE IF HasValidate(resp.info)
           THEN \* lines 180-188
                /\ ok
                /\ WxSet(SendMessage(WxStart, Msg("verify succeeded", <<>>), TRUE, TRUE))
                /\ outcome' = Returned(TokenOf(resp.info))
                /\ vpc' = "done"
                /\ slept' = 0
                /\ UNCHANGED waited
           ELSE \* an info that is none of these: the loop goes on
                /\ ok
                /\ WxSet(WxStart)
                /\ slept' = 0
                /\ UNCHANGED <<outcome, vpc, waited>>
    /\ UNCHANGED verify_count

\* lines 146-147: the GET of query_url raises, or its answer is no JSON
PollRaises ==
    /\ UNCHANGED wvars
    /\ vpc = "poll"
    /\ query_count < MaxQuery
    /\ query_count' = query_count + 1
    /\ scenario' = -1
    /\ polled' = NoResponse
    /\ outcome' = Raised("poll")
    /\ vpc' = "done"
    /\ WxSet(WxStart)
    /\ slept' = 0
    /\ UNCHANGED <<verify_count, waited>>

\* line 142: query_count < 10 fails, the attempt is over
PollsUsedUp ==
    /\ UNCHANGED wvars
    /\ vpc = "poll"
    /\ query_count >= MaxQuery
    /\ vpc' = "while"
    /\ WxSet(WxStart)
    /\ slept' = 0
    /\ UNCHANGED <<verify_count, query_count, outcome, waited, scenario>>
    /\ polled' = NoResponse

\* lines 126, 189-190: verify_count < 3 fails; the else branch of the while
\* sends the timeout notice and the function ends
VerifyTimeout ==
    /\ UNCHANGED wvars
    /\ vpc = "while"
    /\ verify_count >= MaxVerify
    /\ \E ok \in BOOLEAN :
        LET wx1 == SendMessage(WxStart, Msg("verify timeout", <<>>), FALSE, ok)
        IN  /\ WxSet(wx1)
            /\ outcome' = IF wx1.raised THEN Raised("post") ELSE Returned(None)
    /\ vpc' = "done"
    /\ slept' = 0
    /\ UNCHANGED <<verify_count, query_count, waited, scenario>>
    /\ polled' = NoResponse

NextVerify ==
    \/ Submit
    \/ SubmitRaises
    \/ Poll
    \/ PollRaises
    \/ PollsUsedUp
    \/ VerifyTimeout

InitVerify ==
    /\ InitWxVars
    /\ InitVerifyVars
    /\ InitWatchVars

SpecVerify == InitVerify /\ [][NextVerify]_vars

\* ------------------------------------------- WorkWx driven on its own
WxTexts == {Msg("text", <<i>>) : i \in 1..MaxText}

InitWx ==
    /\ InitWxVars
    /\ InitVerifyVars
    /\ InitWatchVars

\* send_message(message, delay=True)
SendDelayed ==
    /\ Len(queue) < MaxQueue
    /\ \E message \in WxTexts :
            WxSet(SendMessage(WxStart, message, TRUE, TRUE))
    /\ slept' = 0
    /\ UNCHANGED <<vfvars, wvars>>

\* send_message(message), delay defaulting to False
SendNow ==
    /\ \E message \in WxTexts, ok \in BOOLEAN :
            WxSet(SendMessage(WxStart, message, FALSE, ok))
    /\ slept' = 0
    /\ UNCHANGED <<vfvars, wvars>>

NextWx == SendDelayed \/ SendNow

SpecWx == InitWx /\ [][NextWx]_vars

\* ------------------------------------------------ watch on its own
Init ==
    /\ InitWxVars
    /\ InitVerifyVars
    /\ InitWatchVars

Next ==
    \/ WatchReturns
    \/ WatchLogin
    \/ LoginAttempt
    \/ LoginReturns
    \/ CycleStart
    \/ PollingEnds
    \/ QuerySucceeds
    \/ EnqueueChange
    \/ QueryInvalidated
    \/ QueryFails
    \/ CycleEnd
    \/ Sigterm
    \/ Interrupted

Spec == Init /\ [][Next]_vars

\* =============================================================== claims

\* the one send_message call of the last step, when it made exactly one
OneCall(cs) == Len(cs) = 1

\* C1: a send_message call without delay that returns has made exactly one
\* post; its payload is the messages pending before the call, oldest first,
\* then the message of the call, with the blank-line separator between any
\* two of them; and the pending queue is empty afterwards.
C1_FlushDeliversQueueInOrder ==
    [][ (OneCall(calls') /\ ~calls'[1].delay /\ ~calls'[1].raised) =>
            /\ Len(posted') = 1
            /\ Len(posted'[1]) = 2 * Len(queue) + 1
            /\ \A i \in 1..Len(queue) :
                    /\ posted'[1][2 * i - 1] = queue[i]
                    /\ posted'[1][2 * i] = [tag |-> "\n\n", body |-> Msg("", <<>>)]
            /\ posted'[1][2 * Len(queue) + 1]
                    = [tag |-> "PCR", body |-> calls'[1].message]
            /\ queue' = <<>> ]_vars

\* two pending messages and the triggering one were posted as one payload
C1_Witness ==
    /\ OneCall(calls) /\ ~calls[1].delay /\ ~calls[1].raised
    /\ Len(posted) = 1
    /\ Len(posted[1]) = 5
    /\ posted[1][1] # posted[1][3]
    /\ queue = <<>>

\* C2: a send_message call with delay=True puts its message at the tail of
\* the pending queue, posts nothing, and leaves the messages pending before
\* it, and their order, as they were.
C2_DelayedOnlyAppends ==
    [][ (OneCall(calls') /\ calls'[1].delay) =>
            /\ posted' = <<>>
            /\ Len(queue') = Len(queue) + 1
            /\ \A i \in 1..Len(queue) : queue'[i] = queue[i]
            /\ queue'[Len(queue')] = [tag |-> "PCR", body |-> calls'[1].message] ]_vars

\* a delayed message was put behind two pending ones
C2_Witness ==
    /\ OneCall(calls) /\ calls[1].delay
    /\ Len(queue) = 3
    /\ posted = <<>>

\* C3: when the query of a user returns the ranks stored for that user, the
\* step makes no send_message call (nothing is queued or posted), leaves the
\* stored ranks as they were and does not set the flag of the cycle.
C3_SameRanksNoEffect ==
    [][ (queried'.ok /\ queried'.value = pcr_cache[queried'.user]) =>
            /\ calls' = <<>>
            /\ posted' = <<>>
            /\ queue' = queue
            /\ pcr_cache' = pcr_cache
            /\ user_rank_has_changed' = user_rank_has_changed ]_vars

\* a query returned the stored, non-initial ranks in a cycle without a change
C3_Witness ==
    /\ queried.ok
    /\ queried.value = pcr_cache[queried.user]
    /\ queried.value # <<0, 0>>
    /\ ~user_rank_has_changed
    /\ queue = <<>>

\* C4: the query-error count is kept per user: the third failed query in a
\* row of one user (no success of that user in between, no failure with the
\* title text) posts one failure notice, sets the count to 0 and adds 1 to
\* user_notify_error_count, whatever the queries of the other users did.
C4_PerUserThreshold ==
    [][ \A u \in Users :
            ( /\ pc = "for"
              /\ queried' = QueryRaised(u, 2)
              /\ streak[u] = 3 - 1 ) =>
            /\ Len(posted') = 1
            /\ user_query_error_count' = 0
            /\ user_notify_error_count' = user_notify_error_count + 1 ]_vars

\* C5: with user_notify_error_count at 3 no cycle starts and no query is
\* made; the polling loop is left for the top of the outer loop, and when
\* the polling loop is next entered, after login returned, both counts are 0.
C5_LimitEndsPolling ==
    [][ /\ (user_notify_error_count = 3) =>
                /\ pc' \notin {"for", "enqueue"}
                /\ queried' = NoQuery
                /\ (pc = "while" /\ pc' # pc) => pc' = "top"
        /\ (pc = "login" /\ pc' = "while") =>
                /\ user_query_error_count' = 0
                /\ user_notify_error_count' = 0 ]_vars

\* the count is 3 and login is entered again
C5_Witness ==
    /\ user_notify_error_count = 3
    /\ pc = "login"
    /\ ~watch_event

\* C6: a query that raises the exception with the title text sets
\* user_notify_error_count to 3, leaves user_query_error_count as it was,
\* makes no send_message call and ends the for loop; until the outer loop
\* is at its top again no user is queried.
C6_TitleErrorForcesLogin ==
    [][ /\ (queried'.user # 0 /\ ~queried'.ok /\ queried'.value = <<1>>) =>
                /\ user_notify_error_count' = 3
                /\ user_query_error_count' = user_query_error_count
                /\ calls' = <<>>
                /\ posted' = <<>>
                /\ pc' = "summary"
        /\ (user_notify_error_count = 3 /\ pc \in {"summary", "while"}) =>
                /\ pc' \in {"summary", "while", "top"}
                /\ queried' = NoQuery ]_vars

\* the query of the first user raised the title error after failed queries:
\* the second user is not queried in this cycle
C6_Witness ==
    /\ queried = QueryRaised(WatchIds[1], 1)
    /\ pc = "summary"
    /\ pos = 1
    /\ user_notify_error_count = 3
    /\ user_query_error_count = 2

\* the timeout notice of line 190 was the last thing _verify_captcha did
TimedOut ==
    /\ vpc = "done"
    /\ calls # <<>>
    /\ calls[Len(calls)].message.kind = "verify timeout"

\* C7: when the three attempts are used up, _verify_captcha sends the
\* timeout notice and ends with an exception, not with a return.
C7_ExhaustionRaises ==
    TimedOut => outcome.how = "raised"

\* C8: a status response whose info holds validate ends _verify_captcha in
\* that step with the token (challenge, gt_user_id, validate) of that
\* response; the step posts nothing, its only message is the queued success
\* notice, and nothing happens after it.
C8_SuccessShortCircuits ==
    [][ /\ vpc # "done"
        /\ (polled'.info.validate # "") =>
                /\ outcome' = [how |-> "returned",
                               value |-> << polled'.info.challenge,
                                            polled'.info.gt_user_id,
                                            polled'.info.validate >>]
                /\ vpc' = "done"
                /\ posted' = <<>>
                /\ Len(calls') = 1
                /\ calls'[1].message.kind = "verify succeeded" ]_vars

\* the token was returned at the last poll of the last attempt
C8_Witness ==
    /\ vpc = "done"
    /\ outcome = [how |-> "returned", value |-> <<"c", "g", "v">>]
    /\ verify_count = 3
    /\ query_count = 10

\* C9 as written: the scenario ends with the token (c, g, v) after 1
\* submission and 4 polls, and 25 seconds of waiting.
C9_ScenarioWaits25 ==
    (scenario = 4) =>
        /\ outcome = [how |-> "returned", value |-> <<"c", "g", "v">>]
        /\ verify_count = 1
        /\ query_count = 4
        /\ waited = 25

\* C9: the scenario (one submission; two status polls with queue_num 2, one
\* with "in running", one with the validate) ends with the token (c, g, v)
\* after 1 submission and 4 polls, and 2 x 20 + 5 = 45 seconds of waiting.
C9_ScenarioWaits45 ==
    (scenario = 4) =>
        /\ outcome = [how |-> "returned", value |-> <<"c", "g", "v">>]
        /\ vpc = "done"
        /\ verify_count = 1
        /\ query_count = 4
        /\ waited = 45

\* the four responses of the scenario were read
C9_Witness ==
    /\ scenario = 4
    /\ polled = VerifyScenario[4]

\* C10: after a status response with queue position q > 0 (and the post of
\* the position notice returning) the sleep is min(q, 3) * 10 seconds, at
\* most 30; 1, 2, 3, 5, 100 give 10, 20, 30, 30, 30.
C10_QueueWait ==
    [][ (polled'.queue_num > 0 /\ outcome'.how = "running") =>
            /\ slept' = (IF polled'.queue_num < 3 THEN polled'.queue_num ELSE 3) * 10
            /\ slept' <= 30
            /\ \A pair \in {<<1, 10>>, <<2, 20>>, <<3, 30>>, <<5, 30>>, <<100, 30>>} :
                    polled'.queue_num = pair[1] => slept' = pair[2] ]_vars

\* position 100 was reported and the sleep was 30 seconds
C10_Witness ==
    /\ polled.queue_num = 100
    /\ outcome.how = "running"
    /\ slept = 30

\* the absolute difference of two ranks
Dist(a, b) == IF a < b THEN b - a ELSE a - b

\* the text of a change of one board only: the user, the board, the arrow
\* (1 up when the new rank is the smaller number, -1 down when it is the
\* larger), the absolute difference, the stored and the new rank
OneBoardText(u, board, old, new) ==
    [kind |-> "rank change",
     args |-> <<u, board, IF new < old THEN 1 ELSE -1, Dist(old, new), old, new>>]

\* C11: a query whose ranks differ from the stored ones on exactly one board
\* builds a text that names only that board, with the absolute difference
\* and the up arrow when the new rank is the smaller number (the down arrow
\* when it is larger), stores the returned ranks and sets the flag of the
\* cycle; the next step queues exactly that text with delay and posts
\* nothing; the flag stays set to the end of the cycle, where the summary is
\* sent without delay, which posts the queue and empties it.
C11_OneBoardChange ==
    [][ /\ queried'.ok =>
              LET u == queried'.user
                  old == pcr_cache[u]
                  new == queried'.value
              IN  /\ (old[1] # new[1] /\ old[2] = new[2]) =>
                        /\ change_message' = OneBoardText(u, 1, old[1], new[1])
                        /\ pcr_cache' = [pcr_cache EXCEPT ![u] = new]
                        /\ user_rank_has_changed'
                        /\ pc' = "enqueue"
                  /\ (old[1] = new[1] /\ old[2] # new[2]) =>
                        /\ change_message' = OneBoardText(u, 2, old[2], new[2])
                        /\ pcr_cache' = [pcr_cache EXCEPT ![u] = new]
                        /\ user_rank_has_changed'
                        /\ pc' = "enqueue"
        /\ (pc = "enqueue" /\ pc' # pc) =>
              /\ calls' = <<[message |-> change_message, delay |-> TRUE,
                             raised |-> FALSE]>>
              /\ posted' = <<>>
              /\ queue' = Append(queue, [tag |-> "PCR", body |-> change_message])
        /\ (user_rank_has_changed /\ pc \in {"for", "enqueue"}
                /\ pc' \in {"for", "enqueue", "summary"}) => user_rank_has_changed'
        /\ (pc = "summary" /\ user_rank_has_changed /\ slept' = 3) =>
              /\ Len(calls') = 1
              /\ calls'[1].message.kind = "ranks changed"
              /\ ~calls'[1].delay
              /\ Len(posted') = 1
              /\ queue' = <<>> ]_vars

\* the arena rank of user 1 went from 100 to 95: the payload posted at the
\* end of the cycle is the text of that change alone, up by 5, and the summary
C11_Witness ==
    /\ pc = "while"
    /\ Len(posted) = 1
    /\ Len(posted[1]) = 3
    /\ posted[1][1].body = [kind |-> "rank change", args |-> <<1, 1, 1, 5, 100, 95>>]
    /\ posted[1][3].body.kind = "ranks changed"
    /\ pcr_cache[1][1] = 95

\* the pending queue holds a text of a rank change of user u to the ranks new
Enqueued(q, u, new) ==
    \E i \in 1..Len(q) :
        /\ q[i].body.kind = "rank change"
        /\ q[i].body.args[1] = u
        /\ q[i].body.args[Len(q[i].body.args)] \in {new[1], new[2]}

\* C12: the stored ranks of a user are overwritten only after the text of that
\* change has been built and put on the pending queue: in a step that changes
\* the stored ranks of a user, the queue already holds the text of the change.
C12_UpdateAfterEnqueue ==
    [][ \A u \in Users :
            pcr_cache'[u] # pcr_cache[u] => Enqueued(queue, u, pcr_cache'[u]) ]_vars

\* C13: once the stop signal is set the loop comes to its end by the check
\* of the signal at line 221: as long as watch has not returned there, it
\* has a step to take.
C13_StopReached == watch_event => (pc = "returned" \/ ENABLED Next)

\* what is left of a solve: 0 when it has ended, and less after every step
Measure(p, v, q) ==
    IF p = "done" THEN 0
    ELSE IF p = "while" THEN 1 + (3 - v) * 24
    ELSE 2 + (3 - v) * 24 + (10 - q) * 2

\* C14: a solve makes at most 3 submissions and at most 10 status polls for
\* each of them, and it ends: every step brings it nearer to its end. A
\* status response with the info "fail" or "url invalid" ends the polling of
\* the attempt in that step (the solve goes back to the outer loop, or ends
\* when the post of the notice raises), and polling starts again only by a
\* new submission, which counts as an attempt and sets the polls to 0.
C14_SolverBounds ==
    [][ /\ verify_count' <= 3
        /\ query_count' <= 10
        /\ verify_count' >= verify_count
        /\ Measure(vpc', verify_count', query_count')
               < Measure(vpc, verify_count, query_count)
        /\ (vpc' = "done") <=> (outcome' # Running)
        /\ (polled' # NoResponse /\ polled'.queue_num = 0
                /\ polled'.info # NoInfo
                /\ polled'.info.str \in {"fail", "url invalid"}) =>
              /\ Len(calls') = 1
              /\ vpc' = IF calls'[1].raised THEN "done" ELSE "while"
              /\ slept' = 0
        /\ vpc = "while" =>
              /\ polled' = NoResponse
              /\ vpc' = "poll" =>
                    /\ verify_count' = verify_count + 1
                    /\ query_count' = 0
                    /\ calls' = <<[message |-> [kind |-> "verify attempt",
                                                args |-> <<verify_count'>>],
                                   delay |-> TRUE, raised |-> FALSE]>> ]_vars

\* the tenth poll of the third attempt is answered "url invalid"
C14_Witness ==
    /\ vpc = "while"
    /\ verify_count = 3
    /\ query_count = 10
    /\ polled # NoResponse
    /\ polled.info # NoInfo
    /\ polled.info.str = "url invalid"

\* C15: a status poll answered with a queue position sends with delay
\* only: what it sends is put on the pending queue and nothing is posted
\* in that step.
C15_QueuedPollOnlyDelays ==
    [][ (polled' # NoResponse /\ polled'.queue_num # 0) =>
            /\ \A i \in 1..Len(calls') : calls'[i].delay
            /\ posted' = <<>>
            /\ Len(queue') = Len(queue) + Len(calls') ]_vars

\* the payload p holds the messages of the queue q, oldest first
Delivers(p, q) ==
    /\ Len(p) >= 2 * Len(q) + 1
    /\ \A i \in 1..Len(q) : p[2 * i - 1] = q[i]

C17_LoginGating ==
    [][ /\ queried'.user # 0 => pc = "for"
        /\ (pc' = "while" /\ pc \notin {"while", "summary"}) =>
              (pc = "login" /\ ~shouldLogin)
        /\ (pc' = "for" /\ pc \notin {"for", "enqueue"}) => pc = "while"
        /\ (pc = "login" /\ calls' # <<>> /\ pc' # "login") =>
              /\ calls'[Len(calls')].message.kind = "login error"
              /\ ~calls'[Len(calls')].delay
              /\ pc' = "top"
              /\ slept' = 3 ]_vars

\* C18: without an invalidated session user_notify_error_count comes to 3
\* only by the third failure notice in a row, and at that moment the last 9
\* queries, of whichever users, have all failed, none of them with the text
\* of line 311 and none of them answered.
C18_NineFailuresInARow ==
    [][ (user_notify_error_count' = 3 /\ user_notify_error_count # 3
            /\ ~(queried'.user # 0 /\ ~queried'.ok /\ queried'.value = <<1>>)) =>
            /\ user_notify_error_count = 2
            /\ queried'.user # 0 /\ ~queried'.ok
            /\ failed_in_row' >= 9 ]_vars

\* the ninth failed query in a row has brought the third failure notice
C18_Witness ==
    /\ pc = "summary"
    /\ user_notify_error_count = 3
    /\ failed_in_row = 9
    /\ queried.user # 0 /\ ~queried.ok /\ queried.value # <<1>>
    /\ Len(calls) = 1
    /\ calls[1].message.kind = "query failed"

\* C19: the watched users stay the same, and the stored ranks of a user
\* change only in a step whose query was a query of that user, was answered,
\* and returned ranks other than the stored ones, which are then the stored
\* ranks; every other step (failed queries, logins, posts, the stop signal)
\* leaves the stored ranks of every user as they were.
C19_CacheFrame ==
    [][ /\ DOMAIN pcr_cache' = DOMAIN pcr_cache
        /\ \A u \in DOMAIN pcr_cache :
              pcr_cache'[u] # pcr_cache[u] =>
                  /\ queried'.ok
                  /\ queried'.user = u
                  /\ queried'.value # pcr_cache[u]
                  /\ pcr_cache'[u] = queried'.value ]_vars

\* a login after the session was invalidated has returned, and the ranks
\* stored for user 1 before it are still stored
C19_Witness ==
    /\ pc = "while"
    /\ user_notify_error_count = 0
    /\ failed_in_row = 0
    /\ calls = <<>>
    /\ pos = 2
    /\ pcr_cache[1] = <<95, 100>>
    /\ pcr_cache[2] = <<0, 0>>
    /\ ~user_rank_has_changed

\* C20: watch ends only at the check of the stop signal: it has not ended by
\* an exception, and it has not ended while the stop signal is not set.
C20_EndsOnlyByStop ==
    /\ pc # "raised"
    /\ pc = "returned" => watch_event

====
